---- MODULE Spec2Model ----
(***************************************************************************)
(* Model of redis-laned-benchmarks/scripts/visualize.py: the pipeline that *)
(* turns a JMH result file into up to three charts.                        *)
(*                                                                         *)
(* Representation.                                                         *)
(*  - A Python dict is a function whose DOMAIN is the set of its keys.     *)
(*  - A string that the code searches (the benchmark id) is a sequence of  *)
(*    tokens; "." is a token, `x in s` is token membership and             *)
(*    s.split(".")[-1] is the part after the last "." token.               *)
(*  - A JMH parameter value is a string of decimal digits, a sequence of   *)
(*    digits 0..9; int() computes its value ("04" and "4" are both 4).     *)
(*  - A double is a fixed-point integer counting thousandths (Fx(50) is    *)
(*    50.0); a quotient of two doubles is kept exact, as the fraction      *)
(*    [num, den] in lowest terms. Rounding of doubles is not modelled.     *)
(*  - The plotting backend (matplotlib) is outside the model: savefig is   *)
(*    taken to succeed and is recorded as the artifact's file name.        *)
(***************************************************************************)
EXTENDS Integers, Sequences, FiniteSets

VARIABLES
    pc,                \* position in main(): "main","load","hol","strategy","overhead","finish","exit"
    argc,              \* len(sys.argv) - 1
    fileExists,        \* json_path.exists()
    content,           \* what the file holds: [kind |-> "invalid"] or [kind |-> "array", items |-> <<records>>]
    benchmarks,        \* main's `benchmarks` once loaded
    by_lane,           \* plot_hol_impact: laneCount -> PercentileSet
    lane_counts,       \* plot_hol_impact: sorted(by_lane.keys())
    improvement,       \* plot_hol_impact: the annotated p95 improvement
    by_lane_strategy,  \* plot_strategy_comparison: laneCount -> strategy -> PercentileSet
    series,            \* plot_strategy_comparison: the bar series handed to ax.bar
    overheads,         \* plot_selection_overhead: label -> score in microseconds
    annotation,        \* plot_selection_overhead: the overhead annotation
    artifacts,         \* file names handed to plt.savefig, in order
    attempted,         \* reports whose plot_* function was entered
    skipped,           \* reports that printed a "no ... found" message and returned
    raised,            \* the uncaught exception, [type, where]
    exitCode           \* process exit status, -1 while running

vars == <<pc, argc, fileExists, content, benchmarks, by_lane, lane_counts, improvement,
          by_lane_strategy, series, overheads, annotation, artifacts, attempted,
          skipped, raised, exitCode>>

inputVars == <<argc, fileExists, content>>
holVars == <<by_lane, lane_counts, improvement>>
strategyVars == <<by_lane_strategy, series>>
overheadVars == <<overheads, annotation>>

\* Longest record sequence a result file holds in the model.
MaxRecords == 3

----------------------------------------------------------------------------
(* Values *)

Fx(v) == v * 1000

EmptyDict == [k \in {} |-> 0]

Has(d, k) == k \in DOMAIN d

\* dict.get(k, default)
Get(d, k, default) == IF k \in DOMAIN d THEN d[k] ELSE default

Contains(s, tok) == \E i \in DOMAIN s : s[i] = tok

RECURSIVE ParseInt(_)
ParseInt(s) ==
    IF s = <<>> THEN 0
    ELSE ParseInt(SubSeq(s, 1, Len(s) - 1)) * 10 + s[Len(s)]

RECURSIVE SortedSeq(_)
SortedSeq(S) ==
    IF S = {} THEN <<>>
    ELSE LET m == CHOOSE x \in S : \A y \in S : x <= y
         IN <<m>> \o SortedSeq(S \ {m})

\* s.split(".")[-1]
SplitLast(s) ==
    LET dots == {i \in DOMAIN s : s[i] = "."}
        from == IF dots = {} THEN 1
                ELSE 1 + CHOOSE i \in dots : \A j \in dots : j <= i
    IN SubSeq(s, from, Len(s))

RECURSIVE Gcd(_, _)
Gcd(a, b) == IF b = 0 THEN a ELSE Gcd(b, a % b)

Abs(x) == IF x < 0 THEN -x ELSE x

\* The exact quotient n / d (d # 0), in lowest terms with a positive denominator.
NoRatio == [computed |-> FALSE, num |-> 0, den |-> 1]
Ratio(n, d) ==
    LET g == Gcd(Abs(n), Abs(d))
        sign == IF d < 0 THEN -1 ELSE 1
    IN [computed |-> TRUE, num |-> sign * (n \div g), den |-> sign * (d \div g)]

NoException == [type |-> "none", where |-> "none"]
Exception(t, w) == [type |-> t, where |-> w]

----------------------------------------------------------------------------
(* Benchmark records and the files the model reads *)

Markers == {"HolImpactBenchmark", "StrategyComparisonBenchmark", "SelectionOverheadBenchmark"}

Pct(p50, p95, p99) ==
    [k \in {"50.0", "95.0", "99.0"} |->
        IF k = "50.0" THEN Fx(p50) ELSE IF k = "95.0" THEN Fx(p95) ELSE Fx(p99)]

Metric(score, pct) == [score |-> score, scorePercentiles |-> pct]

Record(id, params, metric) == [benchmark |-> id, params |-> params, primaryMetric |-> metric]

HolId == <<"bench", ".", "HolImpactBenchmark", ".", "measure">>
StrategyId == <<"bench", ".", "StrategyComparisonBenchmark", ".", "measure">>
OverheadId(method) == <<"bench", ".", "SelectionOverheadBenchmark", ".">> \o method
OtherId == <<"bench", ".", "PoolBenchmark", ".", "measure">>

HolRecord(lane, pct) == Record(HolId, [laneCount |-> lane], Metric(Fx(1), pct))
StrategyRecord(lane, name, pct) ==
    Record(StrategyId, [laneCount |-> lane, strategyName |-> name], Metric(Fx(1), pct))
OverheadRecord(method, score) == Record(OverheadId(method), EmptyDict, Metric(score, EmptyDict))

HolRecords ==
    { HolRecord(<<1>>, Pct(50, 100, 120)),
      HolRecord(<<4>>, [k \in {"95.0"} |-> Fx(10)]),
      HolRecord(<<0, 4>>, Pct(5, 20, 30)),
      HolRecord(<<1>>, EmptyDict),
      HolRecord(<<1, 6>>, Pct(2, 5, 8)) }

StrategyRecords ==
    { StrategyRecord(<<4>>, "ROUND_ROBIN", Pct(5, 10, 15)),
      StrategyRecord(<<4>>, "ROUND_ROBIN", Pct(5, 20, 30)),
      StrategyRecord(<<4>>, "UNKNOWN", Pct(50, 100, 120)),
      StrategyRecord(<<8>>, "LEAST_USED", EmptyDict) }

\* Scores are in milliseconds: 50 is the fixed-point form of 0.050 ms.
OverheadRecords ==
    { OverheadRecord(<<"baseline", "Overhead">>, 50),
      OverheadRecord(<<"roundRobin", "Overhead">>, 90),
      OverheadRecord(<<"threadAffinity", "Overhead">>, 0),
      OverheadRecord(<<"warmup">>, 10) }

OtherRecords == { Record(OtherId, EmptyDict, Metric(Fx(1), EmptyDict)) }

\* A JSON object of the array that lacks the "params" field.
MalformedRecords ==
    { [benchmark |-> StrategyId, primaryMetric |-> Metric(Fx(1), Pct(5, 10, 15))] }

RecordPool == HolRecords \cup StrategyRecords \cup OverheadRecords \cup OtherRecords
                \cup MalformedRecords

Files ==
    {[kind |-> "invalid", items |-> <<>>]} \cup
    {[kind |-> "array", items |-> s] : s \in UNION {[1..n -> RecordPool] : n \in 0..MaxRecords}}

----------------------------------------------------------------------------
(* extract_percentiles *)

ExtractPercentiles_p99From95(benchmark) ==
    LET percentiles == benchmark.primaryMetric.scorePercentiles
    IN [p50 |-> Get(percentiles, "50.0", 0),
        p95 |-> Get(percentiles, "95.0", 0),
        p99 |-> Get(percentiles, "95.0", 0)]

ExtractPercentiles(benchmark) ==
    LET percentiles == benchmark.primaryMetric.scorePercentiles
    IN [p50 |-> Get(percentiles, "50.0", 0),
        p95 |-> Get(percentiles, "95.0", 0),
        p99 |-> Get(percentiles, "99.0", 0)]

\* benchmark["primaryMetric"]["scorePercentiles"] raises KeyError
ExtractRaises(benchmark) ==
    \/ ~Has(benchmark, "primaryMetric")
    \/ ~Has(benchmark.primaryMetric, "scorePercentiles")

\* b["params"]["laneCount"] raises KeyError
LaneCountRaises(b) == ~Has(b, "params") \/ ~Has(b.params, "laneCount")

\* the list comprehensions `[b for b in benchmarks if marker in b["benchmark"]]`
FilterRaises(bs) == \E i \in DOMAIN bs : ~Has(bs[i], "benchmark")

FilterByMarker(bs, marker) == SelectSeq(bs, LAMBDA b : Contains(b.benchmark, marker))

----------------------------------------------------------------------------
(* plot_hol_impact *)

HolData(bs) == FilterByMarker(bs, "HolImpactBenchmark")

HolLoopRaises(data) ==
    \E i \in DOMAIN data : LaneCountRaises(data[i]) \/ ExtractRaises(data[i])

RECURSIVE GroupByLane_FirstSeen(_)
GroupByLane_FirstSeen(data) ==
    IF data = <<>> THEN EmptyDict
    ELSE LET prev == GroupByLane_FirstSeen(SubSeq(data, 1, Len(data) - 1))
             b == data[Len(data)]
             lane_count == ParseInt(b.params.laneCount)
         IN [k \in DOMAIN prev \cup {lane_count} |->
                IF k \in DOMAIN prev THEN prev[k] ELSE ExtractPercentiles(b)]

\* the loop `for b in hol_data: by_lane[lane_count] = percentiles`
RECURSIVE GroupByLane(_)
GroupByLane(data) ==
    IF data = <<>> THEN EmptyDict
    ELSE LET prev == GroupByLane(SubSeq(data, 1, Len(data) - 1))
             b == data[Len(data)]
             lane_count == ParseInt(b.params.laneCount)
         IN [k \in DOMAIN prev \cup {lane_count} |->
                IF k = lane_count THEN ExtractPercentiles(b) ELSE prev[k]]

\* the order in which the records first mention each lane count
RECURSIVE LaneCounts_InputOrder(_)
LaneCounts_InputOrder(data) ==
    IF data = <<>> THEN <<>>
    ELSE LET prev == LaneCounts_InputOrder(SubSeq(data, 1, Len(data) - 1))
             lane_count == ParseInt(data[Len(data)].params.laneCount)
         IN IF \E i \in DOMAIN prev : prev[i] = lane_count THEN prev
            ELSE Append(prev, lane_count)

HolLaneCounts_Unsorted(data) == LaneCounts_InputOrder(data)

\* lane_counts = sorted(by_lane.keys())
HolLaneCounts(data) == SortedSeq(DOMAIN GroupByLane(data))

P95Values(bl, lcs) == [i \in DOMAIN lcs |-> bl[lcs[i]].p95]

\* `(p95_baseline - p95_laned) / p95_baseline * 100` divides by zero
HolImprovementRaises(p95_values) == Len(p95_values) >= 2 /\ p95_values[1] = 0

HolImprovement(p95_values) ==
    IF Len(p95_values) >= 2
    THEN Ratio((p95_values[1] - p95_values[2]) * 100, p95_values[1])
    ELSE NoRatio

----------------------------------------------------------------------------
(* plot_strategy_comparison *)

strategies == <<"ROUND_ROBIN", "THREAD_AFFINITY", "LEAST_USED">>
strategy_labels == <<"RoundRobin", "ThreadAffinity", "LeastUsed">>

StrategyData(bs) == FilterByMarker(bs, "StrategyComparisonBenchmark")

StrategyLoopRaises(data) ==
    \E i \in DOMAIN data :
        \/ LaneCountRaises(data[i])
        \/ ~Has(data[i].params, "strategyName")
        \/ ExtractRaises(data[i])

\* the loop `for b in strategy_data: by_lane_strategy[lane_count][strategy] = percentiles`
RECURSIVE GroupByLaneStrategy(_)
GroupByLaneStrategy(data) ==
    IF data = <<>> THEN EmptyDict
    ELSE LET prev == GroupByLaneStrategy(SubSeq(data, 1, Len(data) - 1))
             b == data[Len(data)]
             lane_count == ParseInt(b.params.laneCount)
             strategy == b.params.strategyName
             inner == Get(prev, lane_count, EmptyDict)
         IN [k \in DOMAIN prev \cup {lane_count} |->
                IF k = lane_count
                THEN [n \in DOMAIN inner \cup {strategy} |->
                        IF n = strategy THEN ExtractPercentiles(b) ELSE inner[n]]
                ELSE prev[k]]

\* An unrecognized strategy name is drawn as the first series.
BarValue_UnknownAsFirst(bls, lc, strategy) ==
    LET known == {strategies[i] : i \in DOMAIN strategies}
        others == DOMAIN bls[lc] \ known
    IN IF strategy = strategies[1] /\ others # {}
       THEN bls[lc][CHOOSE n \in others : TRUE].p95
       ELSE Get(Get(bls[lc], strategy, EmptyDict), "p95", 0)

\* by_lane_strategy[lc].get(strategy, {}).get("p95", 0)
BarValue(bls, lc, strategy) == Get(Get(bls[lc], strategy, EmptyDict), "p95", 0)

\* one ax.bar call per entry of zip(strategies, strategy_labels, colors)
StrategySeries(bls, lcs) ==
    [i \in DOMAIN strategies |->
        [label |-> strategy_labels[i],
         values |-> [j \in DOMAIN lcs |-> BarValue(bls, lcs[j], strategies[i])]]]

----------------------------------------------------------------------------
(* plot_selection_overhead *)

MsToUs == 1000

OverheadData(bs) == FilterByMarker(bs, "SelectionOverheadBenchmark")

OverheadLoopRaises(data) ==
    \E i \in DOMAIN data :
        ~Has(data[i], "primaryMetric") \/ ~Has(data[i].primaryMetric, "score")

\* the if/elif chain on `method`; "none" when no branch is taken
Classify(method) ==
    IF Contains(method, "baseline") THEN "Baseline"
    ELSE IF Contains(method, "roundRobin") THEN "RoundRobin"
    ELSE IF Contains(method, "threadAffinity") THEN "ThreadAffinity"
    ELSE IF Contains(method, "leastUsed") THEN "LeastUsed"
    ELSE "none"

\* the loop `for b in overhead_data: overheads[label] = score_us`
RECURSIVE GroupOverheads(_)
GroupOverheads(data) ==
    IF data = <<>> THEN EmptyDict
    ELSE LET prev == GroupOverheads(SubSeq(data, 1, Len(data) - 1))
             b == data[Len(data)]
             method == SplitLast(b.benchmark)
             score_us == b.primaryMetric.score * MsToUs
             label == Classify(method)
         IN IF label = "none" THEN prev
            ELSE [k \in DOMAIN prev \cup {label} |-> IF k = label THEN score_us ELSE prev[k]]

MaxOf(S) == CHOOSE x \in S : \A y \in S : y <= x

\* max(v for k, v in overheads.items() if k != "Baseline")
MaxStrategy(ov) == MaxOf({ov[k] : k \in DOMAIN ov \ {"Baseline"}})

\* the block under `if len(values) >= 2:` reaches `overhead / max_strategy`
AnnotationReached(ov) ==
    Cardinality(DOMAIN ov) >= 2 /\ Get(ov, "Baseline", 0) > 0

\* `overhead / max_strategy` divides by zero
OverheadAnnotationRaises(ov) == AnnotationReached(ov) /\ MaxStrategy(ov) = 0

NoAnnotation == [computed |-> FALSE, overhead |-> 0, pct |-> NoRatio]

OverheadAnnotation(ov) ==
    IF AnnotationReached(ov)
    THEN LET baseline == Get(ov, "Baseline", 0)
             max_strategy == MaxStrategy(ov)
             overhead == max_strategy - baseline
         IN [computed |-> TRUE, overhead |-> overhead,
             pct |-> Ratio(overhead * 100, max_strategy)]
    ELSE NoAnnotation

----------------------------------------------------------------------------
(* main *)

Init ==
    /\ pc = "main"
    /\ argc \in {0, 1, 2}
    /\ fileExists \in BOOLEAN
    /\ content \in Files
    \* a file that is never opened has no content in the model
    /\ (argc # 1 \/ ~fileExists) => (content.kind = "invalid" /\ ~fileExists)
    /\ benchmarks = <<>>
    /\ by_lane = EmptyDict
    /\ lane_counts = <<>>
    /\ improvement = NoRatio
    /\ by_lane_strategy = EmptyDict
    /\ series = <<>>
    /\ overheads = EmptyDict
    /\ annotation = NoAnnotation
    /\ artifacts = <<>>
    /\ attempted = {}
    /\ skipped = {}
    /\ raised = NoException
    /\ exitCode = -1

\* sys.exit(1)
Exit1 == pc' = "exit" /\ exitCode' = 1 /\ UNCHANGED raised

\* an exception no one catches: the interpreter prints the traceback and exits with 1
Crash(type, where) == pc' = "exit" /\ exitCode' = 1 /\ raised' = Exception(type, where)

Goto(next) == pc' = next /\ UNCHANGED <<exitCode, raised>>

\* main, lines 258-268: the argument count and the file's existence
MainCheckArgs ==
    /\ pc = "main"
    /\ IF argc # 1 THEN Exit1
       ELSE IF ~fileExists THEN Exit1
       ELSE Goto("load")
    /\ UNCHANGED <<inputVars, benchmarks, holVars, strategyVars, overheadVars,
                   artifacts, attempted, skipped>>

\* main, lines 270-271: load_results; json.load raises on content that is not JSON
LoadResults ==
    /\ pc = "load"
    /\ IF content.kind = "invalid"
       THEN Crash("JSONDecodeError", "load") /\ UNCHANGED benchmarks
       ELSE benchmarks' = content.items /\ Goto("hol")
    /\ UNCHANGED <<inputVars, holVars, strategyVars, overheadVars,
                   artifacts, attempted, skipped>>

PlotHolImpact ==
    /\ pc = "hol"
    /\ attempted' = attempted \cup {"hol"}
    /\ UNCHANGED <<inputVars, benchmarks, strategyVars, overheadVars>>
    /\ IF FilterRaises(benchmarks)
       THEN Crash("KeyError", "hol") /\ UNCHANGED <<holVars, artifacts, skipped>>
       ELSE LET hol_data == HolData(benchmarks) IN
            IF hol_data = <<>>
            THEN /\ skipped' = skipped \cup {"hol"}
                 /\ Goto("strategy")
                 /\ UNCHANGED <<holVars, artifacts>>
            ELSE IF HolLoopRaises(hol_data)
            THEN Crash("KeyError", "hol") /\ UNCHANGED <<holVars, artifacts, skipped>>
            ELSE LET bl == GroupByLane(hol_data)
                     lcs == HolLaneCounts(hol_data)
                     p95_values == P95Values(bl, lcs)
                 IN /\ by_lane' = bl
                    /\ lane_counts' = lcs
                    /\ UNCHANGED skipped
                    /\ IF HolImprovementRaises(p95_values)
                       THEN /\ Crash("ZeroDivisionError", "hol")
                            /\ UNCHANGED <<improvement, artifacts>>
                       ELSE /\ improvement' = HolImprovement(p95_values)
                            /\ artifacts' = Append(artifacts, "hol_impact.png")
                            /\ Goto("strategy")

PlotStrategyComparison ==
    /\ pc = "strategy"
    /\ attempted' = attempted \cup {"strategy"}
    /\ UNCHANGED <<inputVars, benchmarks, holVars, overheadVars>>
    /\ IF FilterRaises(benchmarks)
       THEN Crash("KeyError", "strategy") /\ UNCHANGED <<strategyVars, artifacts, skipped>>
       ELSE LET strategy_data == StrategyData(benchmarks) IN
            IF strategy_data = <<>>
            THEN /\ skipped' = skipped \cup {"strategy"}
                 /\ Goto("overhead")
                 /\ UNCHANGED <<strategyVars, artifacts>>
            ELSE IF StrategyLoopRaises(strategy_data)
            THEN Crash("KeyError", "strategy") /\ UNCHANGED <<strategyVars, artifacts, skipped>>
            ELSE LET bls == GroupByLaneStrategy(strategy_data)
                     lcs == SortedSeq(DOMAIN bls)
                 IN /\ by_lane_strategy' = bls
                    /\ series' = StrategySeries(bls, lcs)
                    /\ artifacts' = Append(artifacts, "strategy_comparison.png")
                    /\ Goto("overhead")
                    /\ UNCHANGED skipped

PlotSelectionOverhead ==
    /\ pc = "overhead"
    /\ attempted' = attempted \cup {"overhead"}
    /\ UNCHANGED <<inputVars, benchmarks, holVars, strategyVars>>
    /\ IF FilterRaises(benchmarks)
       THEN Crash("KeyError", "overhead") /\ UNCHANGED <<overheadVars, artifacts, skipped>>
       ELSE LET overhead_data == OverheadData(benchmarks) IN
            IF overhead_data = <<>>
            THEN /\ skipped' = skipped \cup {"overhead"}
                 /\ Goto("finish")
                 /\ UNCHANGED <<overheadVars, artifacts>>
            ELSE IF OverheadLoopRaises(overhead_data)
            THEN Crash("KeyError", "overhead") /\ UNCHANGED <<overheadVars, artifacts, skipped>>
            ELSE LET ov == GroupOverheads(overhead_data) IN
                 /\ overheads' = ov
                 /\ IF ov = EmptyDict
                    THEN /\ skipped' = skipped \cup {"overhead"}
                         /\ Goto("finish")
                         /\ UNCHANGED <<annotation, artifacts>>
                    ELSE IF OverheadAnnotationRaises(ov)
                    THEN /\ Crash("ZeroDivisionError", "overhead")
                         /\ UNCHANGED <<annotation, artifacts, skipped>>
                    ELSE /\ annotation' = OverheadAnnotation(ov)
                         /\ artifacts' = Append(artifacts, "selection_overhead.png")
                         /\ Goto("finish")
                         /\ UNCHANGED skipped

\* main, lines 278-279: the closing messages; the interpreter then exits with 0
MainFinish ==
    /\ pc = "finish"
    /\ pc' = "exit"
    /\ exitCode' = 0
    /\ UNCHANGED <<inputVars, benchmarks, holVars, strategyVars, overheadVars,
                   artifacts, attempted, skipped, raised>>

Next ==
    \/ MainCheckArgs
    \/ LoadResults
    \/ PlotHolImpact
    \/ PlotStrategyComparison
    \/ PlotSelectionOverhead
    \/ MainFinish

Spec == Init /\ [][Next]_vars

----------------------------------------------------------------------------
(* Vocabulary of the properties *)

Reports == {"hol", "strategy", "overhead"}

ReportOf(marker) ==
    IF marker = "HolImpactBenchmark" THEN "hol"
    ELSE IF marker = "StrategyComparisonBenchmark" THEN "strategy"
    ELSE "overhead"

ArtifactOf(report) ==
    IF report = "hol" THEN "hol_impact.png"
    ELSE IF report = "strategy" THEN "strategy_comparison.png"
    ELSE "selection_overhead.png"

Range(s) == {s[i] : i \in DOMAIN s}

Written(report) == ArtifactOf(report) \in Range(artifacts)

Ended == pc = "exit"

\* the file was opened and parsed as a JSON array
FileLoads == argc = 1 /\ fileExists /\ content.kind = "array"

\* a record with the three top-level fields of the data model
IsRecord(b) == {"benchmark", "params", "primaryMetric"} \subseteq DOMAIN b

AllRecords(bs) == \A i \in DOMAIN bs : IsRecord(bs[i])

IsHol(b) == Has(b, "benchmark") /\ Contains(b.benchmark, "HolImpactBenchmark")
IsStrategy(b) == Has(b, "benchmark") /\ Contains(b.benchmark, "StrategyComparisonBenchmark")

LaneOf(b) == ParseInt(b.params.laneCount)

\* plot_hol_impact went through its grouping loop
HolGrouped ==
    /\ "hol" \in attempted
    /\ "hol" \notin skipped
    /\ raised # Exception("KeyError", "hol")

\* the index of the last HolImpactBenchmark record of bs with lane count lc
LastHol(bs, lc) ==
    CHOOSE i \in DOMAIN bs :
        /\ IsHol(bs[i]) /\ LaneOf(bs[i]) = lc
        /\ \A j \in DOMAIN bs : (IsHol(bs[j]) /\ LaneOf(bs[j]) = lc) => j <= i

HolLanes(bs) == {LaneOf(bs[i]) : i \in {j \in DOMAIN bs : IsHol(bs[j])}}

\* the permutations of 1..n, for every length a record sequence can have
AllPerms ==
    [n \in 0..MaxRecords |->
        {f \in [1..n -> 1..n] : \A i, j \in 1..n : f[i] = f[j] => i = j}]

Perms(n) == AllPerms[n]

Permute(bs, f) == [i \in DOMAIN bs |-> bs[f[i]]]

----------------------------------------------------------------------------
(* Properties of the whole run *)

\* C1: when a run on a file that loads as a sequence of records ends, at most
\* three artifacts were written, at most one per report, and a report's
\* artifact exists exactly when its grouper yielded at least one group.
C1_ArtifactsMatchGroups ==
    (FileLoads /\ AllRecords(content.items) /\ Ended) =>
        /\ Len(artifacts) <= 3
        /\ \A i, j \in DOMAIN artifacts : artifacts[i] = artifacts[j] => i = j
        /\ Written("hol") <=> DOMAIN GroupByLane(HolData(content.items)) # {}
        /\ Written("strategy") <=>
               DOMAIN GroupByLaneStrategy(StrategyData(content.items)) # {}
        /\ Written("overhead") <=>
               DOMAIN GroupOverheads(OverheadData(content.items)) # {}

\* every record of bs carries the marker and no other marker
OnlyMarker(bs, marker) ==
    /\ bs # <<>>
    /\ AllRecords(bs)
    /\ \A i \in DOMAIN bs :
           \A m \in Markers : Contains(bs[i].benchmark, m) <=> m = marker

\* C2: a loaded sequence whose records all carry the same single marker has
\* all three reports attempted, the two reports without matching records
\* soft-skip without raising, and exactly one artifact is produced.
C2_ExactlyOneArtifact ==
    \A marker \in Markers :
        (FileLoads /\ OnlyMarker(content.items, marker) /\ Ended) =>
            /\ attempted = Reports
            /\ \A r \in Reports \ {ReportOf(marker)} : r \in skipped /\ raised.where # r
            /\ Len(artifacts) = 1

\* C3: exit code 1 and no artifact on a missing file or a wrong argument
\* count; exit code 0 in every other run whose file loads, whatever the three
\* report steps do.
C3_ExitStatus ==
    Ended =>
        IF argc # 1 \/ ~fileExists
        THEN exitCode = 1 /\ artifacts = <<>>
        ELSE (content.kind = "array" /\ AllRecords(content.items)) => exitCode = 0

\* C4: content that is not an array of records with the required top-level
\* fields is rejected at the load step: no report starts, no artifact is
\* written, and the run never fails inside the report sequence.
C4_MalformedRejectedAtLoad ==
    (argc = 1 /\ fileExists
        /\ ~(content.kind = "array" /\ AllRecords(content.items))) =>
        /\ pc \in {"main", "load", "exit"}
        /\ attempted = {}
        /\ artifacts = <<>>
        /\ Ended => raised.where = "load"

----------------------------------------------------------------------------
(* Properties of plot_hol_impact *)

\* C5 (as stated): the mapping laneCount -> PercentileSet is the same for
\* every permutation of the record sequence, duplicated lane counts with
\* different percentile values included.
C5_OrderIndependent ==
    HolGrouped =>
        \A f \in Perms(Len(benchmarks)) :
            GroupByLane(HolData(Permute(benchmarks, f))) = by_lane

\* two matching records with the same lane count carry the same percentiles
NoConflictingLanes(bs) ==
    \A i, j \in DOMAIN bs :
        (IsHol(bs[i]) /\ IsHol(bs[j]) /\ LaneOf(bs[i]) = LaneOf(bs[j])) =>
            ExtractPercentiles(bs[i]) = ExtractPercentiles(bs[j])

\* plot_hol_impact has just returned or raised (by_lane does not change later)
HolJustRan == pc = "strategy" \/ raised.where = "hol"

\* C5 (amended): the mapping has one entry per lane count of the matching
\* records, holding the percentiles of the last matching record with that
\* lane count in input order; it is the same for every permutation of the
\* input whenever matching records with equal lane counts carry equal
\* percentiles.
C5_LastSeenWins ==
    HolGrouped =>
        /\ DOMAIN by_lane = HolLanes(benchmarks)
        /\ \A lc \in DOMAIN by_lane :
               by_lane[lc] = ExtractPercentiles(benchmarks[LastHol(benchmarks, lc)])
        /\ (HolJustRan /\ NoConflictingLanes(benchmarks)) =>
               \A f \in Perms(Len(benchmarks)) :
                   GroupByLane(HolData(Permute(benchmarks, f))) = by_lane

\* C5 witness: two matching records give lane count 4 different p95 values
\* and the mapping holds the later one's.
C5_Witness ==
    /\ HolGrouped
    /\ Len(benchmarks) >= 2
    /\ IsHol(benchmarks[1]) /\ IsHol(benchmarks[2])
    /\ LaneOf(benchmarks[1]) = 4 /\ LaneOf(benchmarks[2]) = 4
    /\ ExtractPercentiles(benchmarks[1]).p95 = Fx(10)
    /\ ExtractPercentiles(benchmarks[2]).p95 = Fx(20)
    /\ HolLanes(benchmarks) = {4}
    /\ by_lane[4].p95 = Fx(20)

\* C6: whenever the grouper yields at least one lane count the builder
\* completes and writes hol_impact: the annotation is derived only with two
\* or more lane counts, a p95 of 0 at the first lane count raises nothing,
\* and the two later reports still run.
C6_HolAlwaysWrites ==
    (FileLoads /\ AllRecords(content.items) /\ pc \notin {"main", "load", "hol"}
        /\ DOMAIN GroupByLane(HolData(content.items)) # {}) =>
        /\ raised.where # "hol"
        /\ Written("hol")
        /\ improvement.computed => Len(lane_counts) >= 2
        /\ Ended => {"strategy", "overhead"} \subseteq attempted

MinOf(S) == CHOOSE x \in S : \A y \in S : x <= y

\* C7: with two or more distinct lane counts among the matching records the
\* improvement is (a - b) / a * 100, a the p95 of the smallest lane count and
\* b the p95 of the second smallest, whatever the order of the input; the
\* quotient exists when a is not 0.
C7_ImprovementOfTwoSmallest ==
    (HolGrouped /\ Cardinality(HolLanes(benchmarks)) >= 2) =>
        LET first == MinOf(HolLanes(benchmarks))
            second == MinOf(HolLanes(benchmarks) \ {first})
            a == by_lane[first].p95
            b == by_lane[second].p95
        IN a # 0 =>
              /\ improvement.computed
              /\ improvement.num * a = (a - b) * 100 * improvement.den
              /\ improvement.den # 0

\* C7 witness: lane counts 1 and 4 with p95 100 and 10, the record of lane
\* count 4 first in the input, give an improvement of 90.
C7_Witness ==
    /\ HolGrouped /\ Written("hol")
    /\ Len(benchmarks) >= 2
    /\ IsHol(benchmarks[1]) /\ LaneOf(benchmarks[1]) = 4
    /\ HolLanes(benchmarks) = {1, 4}
    /\ by_lane[1].p95 = Fx(100) /\ by_lane[4].p95 = Fx(10)
    /\ improvement.computed
    /\ improvement.num = 90 * improvement.den

----------------------------------------------------------------------------
(* Properties of plot_selection_overhead *)

\* C8: the overhead annotation is computed only when a Baseline bucket exists
\* with a non-zero value; when computed, overhead is the maximum non-baseline
\* bucket minus the baseline and the percentage is overhead / max_strategy *
\* 100; for every set of buckets the builder completes and writes its artifact.
C8_OverheadAnnotation ==
    (FileLoads /\ AllRecords(benchmarks) /\ "overhead" \in attempted
        /\ DOMAIN GroupOverheads(OverheadData(benchmarks)) # {}) =>
        /\ raised.where # "overhead"
        /\ Written("overhead")
        /\ annotation.computed =>
               /\ "Baseline" \in DOMAIN overheads
               /\ overheads["Baseline"] # 0
               /\ annotation.overhead = MaxStrategy(overheads) - overheads["Baseline"]
               /\ annotation.pct.num * MaxStrategy(overheads)
                      = annotation.overhead * 100 * annotation.pct.den

----------------------------------------------------------------------------
(* Properties of plot_strategy_comparison *)

KnownStrategies == {strategies[i] : i \in DOMAIN strategies}

\* plot_strategy_comparison drew its bars
StrategyDrawn ==
    /\ "strategy" \in attempted
    /\ "strategy" \notin skipped
    /\ raised.where # "strategy"

StrategyLanes(bs) == {LaneOf(bs[i]) : i \in {j \in DOMAIN bs : IsStrategy(bs[j])}}

\* the p95 of the last matching record of bs for (lc, strategy), 0 without one
LastP95(bs, lc, strategy) ==
    LET idx == {i \in DOMAIN bs :
                   /\ IsStrategy(bs[i])
                   /\ LaneOf(bs[i]) = lc
                   /\ bs[i].params.strategyName = strategy}
    IN IF idx = {} THEN 0
       ELSE LET sp == bs[MaxOf(idx)].primaryMetric.scorePercentiles
            IN IF "95.0" \in DOMAIN sp THEN sp["95.0"] ELSE 0

HasUnknownStrategy(b) ==
    IsStrategy(b) /\ Has(b, "params") /\ Has(b.params, "strategyName")
        /\ b.params.strategyName \notin KnownStrategies

WithoutUnknown(bs) == SelectSeq(bs, LAMBDA b : ~HasUnknownStrategy(b))

\* C9: a matching record with an unrecognized strategy name raises nothing and
\* contributes no bar: the chart has exactly the three series, every bar is
\* the p95 of the last matching record for its (laneCount, recognized
\* strategy) pair, or 0 without one, and the bar values are those of the
\* input with the unknown-strategy records removed.
C9_UnknownStrategyExcluded ==
    /\ (FileLoads /\ AllRecords(benchmarks) /\ "strategy" \in attempted
           /\ StrategyData(benchmarks) # <<>>) => StrategyDrawn
    /\ StrategyDrawn =>
           LET lcs == SortedSeq(StrategyLanes(benchmarks))
               rest == GroupByLaneStrategy(StrategyData(WithoutUnknown(benchmarks)))
           IN /\ Written("strategy")
              /\ Len(series) = 3
              /\ \A i \in DOMAIN series :
                     /\ series[i].label = strategy_labels[i]
                     /\ Len(series[i].values) = Len(lcs)
                     /\ \A j \in DOMAIN lcs :
                            /\ series[i].values[j]
                                   = LastP95(benchmarks, lcs[j], strategies[i])
                            /\ series[i].values[j]
                                   = IF lcs[j] \in DOMAIN rest
                                     THEN BarValue(rest, lcs[j], strategies[i])
                                     ELSE 0

\* C9 witness: lane count 4 has a ROUND_ROBIN record with p95 20 and an
\* UNKNOWN record with p95 100 after it; the bars of lane count 4 are 20, 0, 0.
C9_Witness ==
    /\ StrategyDrawn /\ Written("strategy")
    /\ Len(benchmarks) = 2
    /\ IsStrategy(benchmarks[1]) /\ benchmarks[1].params.strategyName = "ROUND_ROBIN"
    /\ HasUnknownStrategy(benchmarks[2])
    /\ StrategyLanes(benchmarks) = {4}
    /\ series[1].values = <<Fx(20)>>
    /\ series[2].values = <<0>>
    /\ series[3].values = <<0>>

----------------------------------------------------------------------------
(* Properties of extract_percentiles *)

\* the value stored under key in the record's scorePercentiles, 0 when absent
StoredOrZero(b, key) ==
    LET sp == b.primaryMetric.scorePercentiles
    IN IF key \in DOMAIN sp THEN sp[key] ELSE 0

MatchesStored(ps, b) ==
    /\ ps.p50 = StoredOrZero(b, "50.0")
    /\ ps.p95 = StoredOrZero(b, "95.0")
    /\ ps.p99 = StoredOrZero(b, "99.0")
    /\ DOMAIN b.primaryMetric.scorePercentiles = {} =>
           ps = [p50 |-> 0, p95 |-> 0, p99 |-> 0]

\* C10: extraction never fails on a record, and p50, p95, p99 are the values
\* stored under "50.0", "95.0", "99.0", 0 for an absent key; an empty
\* scorePercentiles gives {p50: 0, p95: 0, p99: 0}.
C10_ExtractionTotal ==
    /\ (FileLoads /\ AllRecords(benchmarks)) => raised.type # "KeyError"
    /\ HolGrouped =>
           \A lc \in DOMAIN by_lane :
               MatchesStored(by_lane[lc], benchmarks[LastHol(benchmarks, lc)])
    /\ StrategyDrawn =>
           \A lc \in DOMAIN by_lane_strategy :
               \A name \in DOMAIN by_lane_strategy[lc] :
                   \E i \in DOMAIN benchmarks :
                       /\ IsStrategy(benchmarks[i])
                       /\ LaneOf(benchmarks[i]) = lc
                       /\ benchmarks[i].params.strategyName = name
                       /\ MatchesStored(by_lane_strategy[lc][name], benchmarks[i])

\* C10 witness: a single record with an empty scorePercentiles was extracted
\* to three zeros and its chart was written.
C10_Witness ==
    /\ HolGrouped /\ Written("hol")
    /\ Len(benchmarks) = 1
    /\ DOMAIN benchmarks[1].primaryMetric.scorePercentiles = {}
    /\ by_lane[1] = [p50 |-> 0, p95 |-> 0, p99 |-> 0]

====
